---- MODULE Spec2Model ----
(***************************************************************************)
(* Representations by levels (RLs): level-set validation, the two-pointer  *)
(* level merge, RL construction and the level-wise general_method of the   *)
(* proxy, runtime and static variants of rlistic.                          *)
(*                                                                         *)
(* Levels are the rationals k/Denom; the model writes a level as its       *)
(* numerator k, so level 1 (1.0) is Denom, 0 is the level 0.0 and Denom+1  *)
(* is a level above 1.  A Python dict is the sequence of its <<key, value>>*)
(* pairs in insertion order.                                               *)
(***************************************************************************)
EXTENDS Integers, Sequences, FiniteSets, TLC

VARIABLES
    \* validate_level_set(level_set)
    level_set, vresult,
    \* __combine_levels(self, *args, **kwargs)
    cl_self, cl_args, cl_kwargs, cl_levels,
    \* the module: which implementation, and its RL_REGISTRY
    variant, RL_REGISTRY,
    \* RL(mapping): the caller's dict and the object built from it
    raw, self_rl,
    \* general_method(self, method_name, *args, **kwargs)
    pc, method_name, args, kwargs, rl_args, rl_kwargs, levels, i,
    curr_self, curr_args, curr_kwargs, prev, mapping, computed, result, exc,
    \* self as it was when general_method was entered, and the calls of
    \* general_method that have ended before this one
    entry_self, earlier,
    \* rlify_program(command, input_file, nproc): the content of the input
    \* file, the machine's CPU count, the position in the function, its
    \* locals, the invocations of the program, and what it returns or raises
    input_file, nproc, num_cpus, p_pc, p_levels, inputs, tasks, completed,
    results, p_mapping, p_exc, p_msg,
    \* the invocations of the program rlify_program has started, in the order
    \* of their start: the position of the level and the input fed
    started

vvars == <<level_set, vresult>>
cvars == <<cl_self, cl_args, cl_kwargs, cl_levels>>
gvars == <<variant, RL_REGISTRY, raw, self_rl, pc, method_name, args, kwargs,
           rl_args, rl_kwargs, levels, i, curr_self, curr_args, curr_kwargs,
           prev, mapping, computed, result, exc, entry_self, earlier>>
pvars == <<input_file, nproc, num_cpus, p_pc, p_levels, inputs, tasks, completed,
           results, p_mapping, p_exc, p_msg, started>>
vars == <<vvars, cvars, gvars, pvars>>

----------------------------------------------------------------------------
(* Bounds *)

Denom == 3       \* levels are 1/Denom .. Denom/Denom
MaxLen == 3      \* longest list handed to validate_level_set
MaxLevels == 2   \* most levels in a dict handed to an RL constructor

One == Denom     \* the level 1

----------------------------------------------------------------------------
(* Sequences and dicts *)

Range(s) == {s[k] : k \in 1..Len(s)}

\* all sequences over S of length 0..n
SeqsUpTo(S, n) == UNION {[1..k -> S] : k \in 0..n}

\* list(mapping.keys()), list(mapping.values())
Keys(m) == [k \in 1..Len(m) |-> m[k][1]]
Values(m) == [k \in 1..Len(m) |-> m[k][2]]

HasKey(m, key) == \E k \in 1..Len(m) : m[k][1] = key

\* mapping.get(key, default)
DictGet(m, key, default) ==
    IF HasKey(m, key)
    THEN m[CHOOSE k \in 1..Len(m) : m[k][1] = key][2]
    ELSE default

\* mapping[key] = value: replaces the value of a present key in place,
\* appends a new key at the end
DictSet(m, key, value) ==
    IF HasKey(m, key)
    THEN [k \in 1..Len(m) |-> IF m[k][1] = key THEN <<key, value>> ELSE m[k]]
    ELSE Append(m, <<key, value>>)

----------------------------------------------------------------------------
(* validate_level_set *)

\* An entry of a list handed to validate_level_set: a number x/Denom, or
\* something that is no float or int (the string "0.8")
Num(x) == [num |-> TRUE, x |-> x]
NotANumber == [num |-> FALSE, x |-> 0]

AsEntries(keys) == [k \in 1..Len(keys) |-> Num(keys[k])]

\* insert e into the descending list s behind the entries not smaller than it
RECURSIVE InsertDesc(_, _)
InsertDesc(e, s) ==
    IF s = <<>> THEN <<e>>
    ELSE IF Head(s).x >= e.x THEN <<Head(s)>> \o InsertDesc(e, Tail(s))
    ELSE <<e>> \o s

\* sorted(level_set, reverse=True) on a list of numbers (stable)
RECURSIVE SortedReverse(_)
SortedReverse(s) ==
    IF s = <<>> THEN <<>>
    ELSE InsertDesc(s[Len(s)], SortedReverse(SubSeq(s, 1, Len(s) - 1)))

\* Mutant: the comparison with sorted(level_set, reverse=True) is missing
validate_level_set_unordered(ls) ==
    IF ~ls.isList THEN "TypeError"
    ELSE IF ls.items = <<>> THEN "ValueError"
    ELSE IF ~\E k \in 1..Len(ls.items) : ls.items[k].num /\ ls.items[k].x = One
         THEN "ValueError"
    ELSE IF ~\A k \in 1..Len(ls.items) : ls.items[k].num THEN "TypeError"
    ELSE IF ~\A k \in 1..Len(ls.items) : 0 < ls.items[k].x /\ ls.items[k].x <= One
         THEN "ValueError"
    ELSE "ok"

\* The checks of validate_level_set, in the order of the code.  The result
\* is the exception raised, or "ok" when the function returns.
validate_level_set(ls) ==
    IF ~ls.isList THEN "TypeError"
    ELSE IF ls.items = <<>> THEN "ValueError"
    ELSE IF ~\E k \in 1..Len(ls.items) : ls.items[k].num /\ ls.items[k].x = One
         THEN "ValueError"
    ELSE IF ~\A k \in 1..Len(ls.items) : ls.items[k].num THEN "TypeError"
    ELSE IF ~\A k \in 1..Len(ls.items) : 0 < ls.items[k].x /\ ls.items[k].x <= One
         THEN "ValueError"
    ELSE IF ls.items # SortedReverse(ls.items) THEN "ValueError"
    ELSE "ok"

----------------------------------------------------------------------------
(* __combine_levels *)

\* the while loop and the two extends of combine_levels_2lists, from the
\* pointers i1, i2 (1-based) on
RECURSIVE Combine2From(_, _, _, _)
Combine2From(lvls1, lvls2, i1, i2) ==
    IF i1 <= Len(lvls1) /\ i2 <= Len(lvls2)
    THEN LET curr1 == lvls1[i1]
             curr2 == lvls2[i2]
         IN  <<IF curr1 >= curr2 THEN curr1 ELSE curr2>>
             \o Combine2From(lvls1, lvls2,
                             IF curr1 >= curr2 THEN i1 + 1 ELSE i1,
                             IF curr2 >= curr1 THEN i2 + 1 ELSE i2)
    ELSE SubSeq(lvls1, i1, Len(lvls1)) \o SubSeq(lvls2, i2, Len(lvls2))

\* Mutant: on equal heads only the first pointer advances
\* (i2 = i2 + 1 if curr2 > curr1 else i2)
RECURSIVE Combine2FromTie1(_, _, _, _)
Combine2FromTie1(lvls1, lvls2, i1, i2) ==
    IF i1 <= Len(lvls1) /\ i2 <= Len(lvls2)
    THEN LET curr1 == lvls1[i1]
             curr2 == lvls2[i2]
         IN  <<IF curr1 >= curr2 THEN curr1 ELSE curr2>>
             \o Combine2FromTie1(lvls1, lvls2,
                                 IF curr1 >= curr2 THEN i1 + 1 ELSE i1,
                                 IF curr2 > curr1 THEN i2 + 1 ELSE i2)
    ELSE SubSeq(lvls1, i1, Len(lvls1)) \o SubSeq(lvls2, i2, Len(lvls2))

combine_levels_2lists_tie1(lvls1, lvls2) == Combine2FromTie1(lvls1, lvls2, 1, 1)

\* Mutant: on equal heads only the second pointer advances
\* (i1 = i1 + 1 if curr1 > curr2 else i1; the larger-or-equal head is emitted)
RECURSIVE Combine2FromTie2(_, _, _, _)
Combine2FromTie2(lvls1, lvls2, i1, i2) ==
    IF i1 <= Len(lvls1) /\ i2 <= Len(lvls2)
    THEN LET curr1 == lvls1[i1]
             curr2 == lvls2[i2]
         IN  <<IF curr1 >= curr2 THEN curr1 ELSE curr2>>
             \o Combine2FromTie2(lvls1, lvls2,
                                 IF curr1 > curr2 THEN i1 + 1 ELSE i1,
                                 IF curr2 >= curr1 THEN i2 + 1 ELSE i2)
    ELSE SubSeq(lvls1, i1, Len(lvls1)) \o SubSeq(lvls2, i2, Len(lvls2))

combine_levels_2lists_tie2(lvls1, lvls2) == Combine2FromTie2(lvls1, lvls2, 1, 1)

\* Mutant: the levels left in lvls2 after the loop are not appended
combine_levels_2lists_notail(lvls1, lvls2) ==
    LET full == Combine2From(lvls1, lvls2, 1, 1)
        n1 == Cardinality({k \in 1..Len(lvls2) : lvls2[k] < lvls1[Len(lvls1)]})
    IN  IF lvls1 = <<>> THEN <<>>
        ELSE SubSeq(full, 1, Len(full) - n1)

combine_levels_2lists(lvls1, lvls2) == Combine2From(lvls1, lvls2, 1, 1)

\* levels folded with the level sets of others[k..]
RECURSIVE FoldLevels(_, _, _)
FoldLevels(lvls, others, k) ==
    IF k > Len(others) THEN lvls
    ELSE FoldLevels(combine_levels_2lists(lvls, others[k]), others, k + 1)

\* Mutant: the combined levels are handed out in ascending order
combine_levels_ascending(own, pos, kw) ==
    LET l == FoldLevels(FoldLevels(own, pos, 1), kw, 1)
    IN  [k \in 1..Len(l) |-> l[Len(l) + 1 - k]]

\* self.__combine_levels(*args, **kwargs) on the level sets of self, of the
\* positional and of the keyword RLs
combine_levels(own, pos, kw) == FoldLevels(FoldLevels(own, pos, 1), kw, 1)

----------------------------------------------------------------------------
(* Objects *)

\* An object is its type and its content.  The number n/d is an int (d = 1)
\* or a float; a ComplicatedClass object holds the int val = n; the bytes
\* objects are b"a" (n = 0), b"b" (n = 1) and b"\xff" (n = 2), which is not
\* valid UTF-8; the str objects are "a" (n = 0) and "b" (n = 1); a list
\* object is the one-element list [n] of an int.
PyInt(n) == [t |-> "int", n |-> n, d |-> 1]
PyFloat(n, d) == [t |-> "float", n |-> n, d |-> d]
CCObj(val) == [t |-> "ComplicatedClass", n |-> val, d |-> 1]
PyBytes(n) == [t |-> "bytes", n |-> n, d |-> 1]
PyStr(n) == [t |-> "str", n |-> n, d |-> 1]
PyList(n) == [t |-> "list", n |-> n, d |-> 1]
NotImplemented == [t |-> "NotImplementedType", n |-> 0, d |-> 1]
None == [t |-> "NoneType", n |-> 0, d |-> 1]

Types == {"int", "float", "ComplicatedClass", "bytes", "str", "list"}
Numeric(o) == o.t \in {"int", "float"}

\* a != b.  Numbers compare by value across int and float; an object of a
\* class without __eq__ is equal to itself alone, and no modelled operation
\* hands the same ComplicatedClass object out twice; bytes, str and list
\* compare by content.
PyNe(a, b) ==
    IF Numeric(a) /\ Numeric(b) THEN a.n * b.d # b.n * a.d
    ELSE IF a.t = "ComplicatedClass" \/ b.t = "ComplicatedClass" THEN TRUE
    ELSE a.t # b.t \/ a.n # b.n

\* copy.deepcopy(obj): a new object of the same type with the same content
deepcopy(obj) == [t |-> obj.t, n |-> obj.n, d |-> obj.d]

Abs(x) == IF x < 0 THEN -x ELSE x

RECURSIVE Power(_, _)
Power(b, e) == IF e = 0 THEN 1 ELSE b * Power(b, e - 1)

\* default of the parameter b of ComplicatedClass.method
B_DEFAULT == 7

Returned(v) == [raised |-> FALSE, val |-> v, exc |-> "None"]
Raised(e) == [raised |-> TRUE, val |-> None, exc |-> e]

\* the methods of int that the model forwards
IntMethods == {"__neg__", "__add__", "__pow__"}

\* getattr(obj, name)(*a, **kw) for an int obj
IntCall(obj, name, a, kw) ==
    IF name \notin IntMethods THEN Raised("AttributeError")
    ELSE IF kw # <<>> THEN Raised("TypeError")
    ELSE IF name = "__neg__"
         THEN IF Len(a) # 0 THEN Raised("TypeError") ELSE Returned(PyInt(-obj.n))
    ELSE IF Len(a) # 1 THEN Raised("TypeError")
    ELSE IF a[1].t # "int" THEN Returned(NotImplemented)
    ELSE IF name = "__add__" THEN Returned(PyInt(obj.n + a[1].n))
    ELSE \* __pow__
         IF a[1].n >= 0 THEN Returned(PyInt(Power(obj.n, a[1].n)))
         ELSE IF obj.n = 0 THEN Raised("ZeroDivisionError")
         ELSE Returned(PyFloat(IF obj.n < 0 /\ (-a[1].n) % 2 = 1 THEN -1 ELSE 1,
                             Power(Abs(obj.n), -a[1].n)))

\* getattr(obj, name)(*a, **kw) for a ComplicatedClass obj, whose only method
\* is method(self, a, /, b=7, *args, c, **kwargs), returning
\* self.val + a.val + b + c + sum(args) + sum(kwargs.values())
CCCall(obj, name, a, kw) ==
    IF name # "method" THEN Raised("AttributeError")
    ELSE IF Len(a) # 1 \/ ~HasKey(kw, "c") \/ Len(kw) # 1 THEN Raised("TypeError")
    ELSE IF a[1].t # "ComplicatedClass" THEN Raised("AttributeError")
    ELSE IF DictGet(kw, "c", None).t # "int" THEN Raised("TypeError")
    ELSE Returned(PyInt(obj.n + a[1].n + B_DEFAULT + DictGet(kw, "c", None).n))

\* getattr(obj, name)(*a, **kw) for a bytes obj: decode() gives the str of
\* valid UTF-8 and raises UnicodeDecodeError otherwise; the operands of the
\* model are no encoding names and no keyword of decode is called c
BytesCall(obj, name, a, kw) ==
    IF name # "decode" THEN Raised("AttributeError")
    ELSE IF Len(a) # 0 \/ kw # <<>> THEN Raised("TypeError")
    ELSE IF obj.n = 2 THEN Raised("UnicodeDecodeError")
    ELSE Returned(PyStr(obj.n))

\* getattr(obj, name)(*a, **kw) for the list obj = [n]: __setitem__(k, v)
\* returns None; list + int is a TypeError
ListCall(obj, name, a, kw) ==
    IF name \notin {"__setitem__", "__add__"} THEN Raised("AttributeError")
    ELSE IF kw # <<>> THEN Raised("TypeError")
    ELSE IF name = "__add__" THEN Raised("TypeError")
    ELSE IF Len(a) # 2 THEN Raised("TypeError")
    ELSE IF a[1].t # "int" THEN Raised("TypeError")
    ELSE IF a[1].n \notin {-1, 0} THEN Raised("IndexError")
    ELSE Returned(None)

\* curr = getattr(curr_self, method_name)(*curr_args, **curr_kwargs)
CallMethod(obj, name, a, kw) ==
    IF obj.t = "int" THEN IntCall(obj, name, a, kw)
    ELSE IF obj.t = "bytes" THEN BytesCall(obj, name, a, kw)
    ELSE IF obj.t = "list" THEN ListCall(obj, name, a, kw)
    ELSE CCCall(obj, name, a, kw)

\* the object obj after getattr(obj, name)(*a, **kw): list.__setitem__
\* changes the list in place, the other operations leave obj as it was
ReceiverAfter(obj, name, a, kw) ==
    IF obj.t = "list" /\ name = "__setitem__" /\ ~CallMethod(obj, name, a, kw).raised
    THEN PyList(a[2].n)
    ELSE obj

----------------------------------------------------------------------------
(* RL construction *)

\* Mutant: the types of the values are not compared
validate_mapping_untyped(m) ==
    validate_level_set([isList |-> TRUE, items |-> AsEntries(Keys(m))])

\* validate_mapping(mapping) on a dict: the level set, then one type for all
\* values
validate_mapping(m) ==
    LET v == validate_level_set([isList |-> TRUE, items |-> AsEntries(Keys(m))])
    IN  IF v # "ok" THEN v
        ELSE IF Cardinality({m[k][2].t : k \in 1..Len(m)}) # 1 THEN "TypeError"
        ELSE "ok"

\* Mutant: __init__ drops a level whose object equals the one stored before it
RECURSIVE Squashed(_)
Squashed(m) ==
    IF Len(m) <= 1 THEN m
    ELSE LET front == Squashed(SubSeq(m, 1, Len(m) - 1))
         IN  IF PyNe(m[Len(m)][2], front[Len(front)][2])
             THEN Append(front, m[Len(m)])
             ELSE front

StoredMapping_squashed(var, m) == Squashed(m)

\* what __init__ stores: proxy and runtime copy every object, static keeps
\* the dict it was given
StoredMapping(var, m) ==
    IF var = "static" THEN m
    ELSE [k \in 1..Len(m) |-> <<m[k][1], deepcopy(m[k][2])>>]

\* self.__mapping is the dict object the caller handed in (static), not a
\* new dict of copies (proxy, runtime)
KeepsCallersDict(var) == var = "static"

\* RL(mapping) of proxy; cls(mapping) for the RL class cls of runtime and
\* static, whose _instance_class is the type cls.  An RL is its class (the
\* type of its objects) and its mapping.
RLInit(var, cls, m) ==
    LET v == validate_mapping(m) IN
    IF v # "ok" THEN [raised |-> TRUE, exc |-> v, rl |-> <<>>]
    ELSE IF var # "proxy" /\ \E k \in 1..Len(m) : m[k][2].t # cls
         THEN [raised |-> TRUE, exc |-> "TypeError", rl |-> <<>>]
    ELSE [raised |-> FALSE, exc |-> "None",
          rl |-> [cls |-> IF var = "proxy" THEN DictGet(m, One, None).t ELSE cls,
                  mapping |-> StoredMapping(var, m)]]

get_level_set(rl) == Keys(rl.mapping)

\* Mutant: a level the RL does not store falls back to its level-1 object
\* instead of the default handed in
get_object_from_one(rl, level, default) ==
    DictGet(rl.mapping, level, DictGet(rl.mapping, One, default))

get_object(rl, level, default) == DictGet(rl.mapping, level, default)

----------------------------------------------------------------------------
(* The variables of an operation that a specification does not run *)

IdleValidate == level_set = [isList |-> TRUE, items |-> <<>>] /\ vresult = "idle"
IdleCombine == cl_self = <<>> /\ cl_args = <<>> /\ cl_kwargs = <<>> /\ cl_levels = <<>>
IdleCall ==
    /\ method_name = "" /\ args = <<>> /\ kwargs = <<>>
    /\ rl_args = <<>> /\ rl_kwargs = <<>> /\ levels = <<>> /\ i = 0
    /\ curr_self = None /\ curr_args = <<>> /\ curr_kwargs = <<>>
    /\ prev = None /\ mapping = <<>> /\ computed = <<>>
    /\ result = None /\ exc = [type |-> "None", level |-> 0, rlclass |-> ""]
    /\ entry_self = None /\ earlier = <<>>
IdleGeneral ==
    /\ variant = "proxy" /\ RL_REGISTRY = {} /\ raw = <<>> /\ self_rl = None
    /\ pc = "idle" /\ IdleCall
\* what the message of an exception of rlify_program holds of a failed
\* invocation: the standard error outputs it embeds, and the level it names
\* (0: none)
NoMsg == [diag |-> <<>>, level |-> 0]

IdleRun ==
    /\ p_levels = <<>> /\ inputs = <<>> /\ tasks = <<>> /\ completed = <<>>
    /\ results = <<>> /\ p_mapping = <<>> /\ p_exc = "None" /\ p_msg = NoMsg
    /\ started = <<>>
IdleProgram ==
    /\ input_file = [kind |-> "missing"] /\ nproc = 1 /\ num_cpus = 1
    /\ p_pc = "idle" /\ IdleRun

----------------------------------------------------------------------------
(* Specification SpecValidate: validate_level_set on any short list *)

Entries == {Num(x) : x \in 0..(Denom + 1)} \cup {NotANumber}

InitValidate ==
    /\ level_set \in [isList : BOOLEAN, items : SeqsUpTo(Entries, MaxLen)]
    /\ vresult = "pending"
    /\ IdleCombine /\ IdleGeneral /\ IdleProgram

Validate ==
    /\ vresult = "pending"
    /\ vresult' = validate_level_set(level_set)
    /\ UNCHANGED <<level_set, cvars, gvars, pvars>>

NextValidate == Validate

SpecValidate == InitValidate /\ [][NextValidate]_vars

----------------------------------------------------------------------------
(* Specification SpecCombine: __combine_levels on the level sets of self   *)
(* and of its RL operands                                                  *)

MaxArgs == 2     \* most positional RL operands of __combine_levels

\* the keys of a dict in descending order: the subset S of the levels
RECURSIVE Descending(_)
Descending(S) ==
    IF S = {} THEN <<>>
    ELSE LET top == CHOOSE x \in S : \A y \in S : x >= y
         IN  <<top>> \o Descending(S \ {top})

\* the level sets an RL can have: validate_mapping accepted them as the keys
\* of a dict, so they hold level 1 and are strictly descending
LevelSets == {Descending(S \cup {One}) : S \in SUBSET (1..Denom)}

InitCombine ==
    /\ cl_self \in LevelSets
    /\ cl_args \in SeqsUpTo(LevelSets, MaxArgs)
    /\ cl_kwargs \in SeqsUpTo(LevelSets, 1)
    /\ cl_levels = <<>>
    /\ IdleValidate /\ IdleGeneral /\ IdleProgram

CombineLevels ==
    /\ cl_levels = <<>>
    /\ cl_levels' = combine_levels(cl_self, cl_args, cl_kwargs)
    /\ UNCHANGED <<cl_self, cl_args, cl_kwargs, vvars, gvars, pvars>>

NextCombine == CombineLevels

SpecCombine == InitCombine /\ [][NextCombine]_vars

----------------------------------------------------------------------------
(* Specification Spec: an RL is constructed from the caller's dict and      *)
(* general_method is called on it, one loop iteration per step             *)

Variants == {"proxy", "runtime", "static"}

\* the objects the caller builds dicts from
IntVals == {PyInt(-1), PyInt(0), PyInt(1)}
CCVals == {CCObj(0), CCObj(1)}
\* the objects of the operands: of the positional operand of an int method,
\* of the RLs handed to ComplicatedClass.method as a, of its keyword c
ArgVals == {PyInt(-1), PyInt(0)}
PosVals == {CCObj(1)}
KwVals == {PyInt(0), PyInt(1)}
BytesVals == {PyBytes(0), PyBytes(1), PyBytes(2)}
ListVals == {PyList(0), PyList(1)}

IsRL(x) == "mapping" \in DOMAIN x

NoExc == [type |-> "None", level |-> 0, rlclass |-> ""]
Exc(type) == [type |-> type, level |-> 0, rlclass |-> ""]

\* the dicts a caller hands to an RL constructor: any keys, sorted or not,
\* levels or not, with objects of one type or of several; the dicts of
\* bytes objects have levels as keys
RawMappings ==
    {m \in SeqsUpTo((0..(Denom + 1)) \X (IntVals \cup CCVals), MaxLevels) :
        \A a, b \in 1..Len(m) : m[a][1] = m[b][1] => a = b}
    \cup {m \in SeqsUpTo((1..Denom) \X BytesVals, MaxLevels) :
        \A a, b \in 1..Len(m) : m[a][1] = m[b][1] => a = b}
    \cup {m \in SeqsUpTo((1..Denom) \X ListVals, MaxLevels) :
        \A a, b \in 1..Len(m) : m[a][1] = m[b][1] => a = b}

\* the RLs of objects of V that the class cls of variant var constructs
RLsOf(var, cls, V) ==
    {RLInit(var, cls, [k \in 1..Len(ls) |-> <<ls[k], f[k]>>]).rl :
        <<ls, f>> \in UNION {{ls} \X [1..Len(ls) -> V] :
                                 ls \in {l \in LevelSets : Len(l) <= MaxLevels}}}

\* proxy has one RL class for all types; runtime and static have the RL
\* classes of RL_REGISTRY
HasRLClass(var, reg, T) == var = "proxy" \/ T \in reg

\* an operand is a crisp object of V or an RL of such objects
OperandsOf(var, reg, T, V) ==
    V \cup (IF HasRLClass(var, reg, T) THEN RLsOf(var, T, V) ELSE {})

\* the calls <<method_name, args, kwargs>> made on an RL of class cls
Calls(var, reg, cls) ==
    IF cls = "int"
    THEN IntMethods
         \X ({<<>>} \cup {<<x>> : x \in OperandsOf(var, reg, "int", ArgVals)})
         \X {<<>>}
    ELSE IF cls = "bytes"
    THEN {"decode"} \X {<<>>} \X {<<>>}
    ELSE IF cls = "list"
    THEN {"__setitem__"}
         \X {<<PyInt(0), x>> : x \in OperandsOf(var, reg, "int", ArgVals)}
         \X {<<>>}
    ELSE {"method"}
         \X ({<<>>} \cup {<<x>> : x \in CCVals \cup OperandsOf(var, reg, "ComplicatedClass", PosVals)})
         \X ({<<>>} \cup {<< <<"c", x>> >> : x \in OperandsOf(var, reg, "int", KwVals)})

\* the classes rlified before the call.  proxy has no registry; runtime
\* adds to its registry; static only reads the one it was given.
Registries(var) ==
    IF var = "proxy" THEN {{}}
    ELSE IF var = "runtime"
         THEN {{"ComplicatedClass", "list"}, {"int", "ComplicatedClass", "bytes"}}
    ELSE {{"int"}, {"ComplicatedClass", "bytes"}, Types}

Init ==
    /\ variant \in Variants
    /\ RL_REGISTRY \in Registries(variant)
    /\ pc = "new" /\ raw = <<>> /\ self_rl = None
    /\ IdleCall /\ IdleValidate /\ IdleCombine /\ IdleProgram

\* RL(mapping), or cls(mapping) for a class cls of RL_REGISTRY
Construct ==
    /\ pc = "new"
    /\ \E m \in RawMappings :
       \E cls \in IF variant = "proxy" THEN {"object"} ELSE RL_REGISTRY :
          LET r == RLInit(variant, cls, m) IN
          /\ raw' = m
          /\ self_rl' = IF r.raised THEN None ELSE r.rl
          /\ exc' = IF r.raised THEN Exc(r.exc) ELSE NoExc
          /\ pc' = IF r.raised THEN "raised" ELSE "constructed"
    /\ UNCHANGED <<variant, RL_REGISTRY, method_name, args, kwargs, rl_args,
                   rl_kwargs, levels, i, curr_self, curr_args, curr_kwargs,
                   prev, mapping, computed, result, entry_self, earlier,
                   vvars, cvars, pvars>>

\* the types of the crisp operands among ops[1..k]
CrispTypes(ops, k) == {ops[j].t : j \in {j \in 1..k : ~IsRL(ops[j])}}

\* Mutant: a crisp object becomes an RL that stores it at every level
Promote_every_level(var, x) ==
    IF IsRL(x) THEN x
    ELSE RLInit(var, x.t, [k \in 1..Denom |-> <<Denom + 1 - k, x>>]).rl

\* the RL of an operand: itself, or the one-level RL of a crisp object
Promote(var, x) ==
    IF IsRL(x) THEN x ELSE RLInit(var, x.t, <<<<One, x>>>>).rl

\* general_method up to the loop, called with <<method_name, args, kwargs>>:
\* crisp operands become RLs, the level sets are combined, the current
\* objects start at level 1, mapping is empty and prev is None
Enter(call) ==
    LET name == call[1]
        a == call[2]
        kw == call[3]
        ops == a \o Values(kw)
        unregistered == variant = "static"
                        /\ ~(CrispTypes(ops, Len(ops)) \subseteq RL_REGISTRY)
        ra == [k \in 1..Len(a) |-> Promote(variant, a[k])]
        rk == [k \in 1..Len(kw) |-> <<kw[k][1], Promote(variant, kw[k][2])>>]
    IN
    /\ method_name' = name /\ args' = a /\ kwargs' = kw
    /\ entry_self' = self_rl
    /\ RL_REGISTRY' = IF variant = "runtime"
                      THEN RL_REGISTRY \cup CrispTypes(ops, Len(ops))
                      ELSE RL_REGISTRY
    /\ prev' = None /\ mapping' = <<>> /\ computed' = <<>> /\ result' = None
    /\ IF unregistered
       THEN /\ pc' = "raised" /\ exc' = Exc("TypeError")
            /\ rl_args' = <<>> /\ rl_kwargs' = <<>> /\ levels' = <<>> /\ i' = 0
            /\ curr_self' = None /\ curr_args' = <<>> /\ curr_kwargs' = <<>>
       ELSE /\ pc' = "loop" /\ exc' = NoExc
            /\ rl_args' = ra /\ rl_kwargs' = rk
            /\ levels' = combine_levels(get_level_set(self_rl),
                             [k \in 1..Len(ra) |-> get_level_set(ra[k])],
                             [k \in 1..Len(rk) |-> get_level_set(rk[k][2])])
            /\ i' = 1
            /\ curr_self' = get_object(self_rl, One, None)
            /\ curr_args' = [k \in 1..Len(ra) |-> get_object(ra[k], One, None)]
            /\ curr_kwargs' = [k \in 1..Len(rk) |->
                                  <<rk[k][1], get_object(rk[k][2], One, None)>>]

\* a call of general_method on the constructed RL
GeneralMethodEnter ==
    /\ pc = "constructed"
    /\ \E call \in Calls(variant, RL_REGISTRY, self_rl.cls) : Enter(call)
    /\ UNCHANGED <<variant, raw, self_rl, earlier, vvars, cvars, pvars>>

\* Mutant: "if curr != prev", without the exemption of level 1
Keep_changed(level, curr, before) == PyNe(curr, before)

\* Mutant: the types of curr and prev are compared, not the objects
Keep_other_type(level, curr, before) == level = One \/ curr.t # before.t

\* Mutant: only the object of level 1 is kept
Keep_level_one(level, curr, before) == level = One

\* Mutant: every computed level is kept
Keep_every(level, curr, before) == TRUE

\* "if level == 1 or curr != prev": whether mapping[level] = curr is run
Keep(level, curr, before) == level = One \/ PyNe(curr, before)

\* the level of rl whose object the loop holds for rl in iteration k: the
\* level lvls[k] when rl stores it, the level held before otherwise, level 1
\* before the loop
RECURSIVE HeldLevel(_, _, _)
HeldLevel(rl, lvls, k) ==
    IF k = 0 THEN One
    ELSE IF HasKey(rl.mapping, lvls[k]) THEN lvls[k]
    ELSE HeldLevel(rl, lvls, k - 1)

\* the exceptions whose class is constructed from one message
SingleMessage == {"AttributeError", "TypeError", "ZeroDivisionError", "KeyError",
                  "ValueError", "IndexError"}

\* raise type(e)(f"Error in {self.__class__.__name__} at level {level}: {e}")
\* of static: an exception of the same class whose message names the RL
\* class and the level, or the TypeError of a class that is not constructed
\* from one message (UnicodeDecodeError takes five arguments)
Rewrap(type, level, cls) ==
    IF type \in SingleMessage
    THEN [type |-> type, level |-> level, rlclass |-> cls]
    ELSE Exc("TypeError")

\* Mutant: an exception of the operation is swallowed and the loop goes on
\* with the next level
LoopStep_skips_raise ==
    /\ pc = "loop" /\ i <= Len(levels)
    /\ LET level == levels[i]
           cs == get_object(self_rl, level, curr_self)
           ca == [k \in 1..Len(rl_args) |-> get_object(rl_args[k], level, curr_args[k])]
           ck == [k \in 1..Len(rl_kwargs) |->
                     <<rl_kwargs[k][1], get_object(rl_kwargs[k][2], level, curr_kwargs[k][2])>>]
           r == CallMethod(cs, method_name, ca, ck)
           after == ReceiverAfter(cs, method_name, ca, ck)
       IN
       /\ curr_self' = after /\ curr_args' = ca /\ curr_kwargs' = ck
       /\ self_rl' = [self_rl EXCEPT !.mapping =
                         DictSet(@, HeldLevel(self_rl, levels, i), after)]
       /\ raw' = IF KeepsCallersDict(variant) THEN self_rl'.mapping ELSE raw
       /\ i' = i + 1
       /\ IF r.raised
          THEN UNCHANGED <<mapping, prev, computed>>
          ELSE /\ mapping' = IF Keep(level, r.val, prev)
                             THEN DictSet(mapping, level, r.val)
                             ELSE mapping
               /\ prev' = r.val
               /\ computed' = Append(computed, <<level, r.val>>)
    /\ UNCHANGED <<variant, RL_REGISTRY, method_name, args, kwargs,
                   rl_args, rl_kwargs, levels, result, pc, exc, entry_self, earlier,
                   vvars, cvars, pvars>>

\* one iteration of "for level in levels"
LoopStep ==
    /\ pc = "loop" /\ i <= Len(levels)
    /\ LET level == levels[i]
           cs == get_object(self_rl, level, curr_self)
           ca == [k \in 1..Len(rl_args) |-> get_object(rl_args[k], level, curr_args[k])]
           ck == [k \in 1..Len(rl_kwargs) |->
                     <<rl_kwargs[k][1], get_object(rl_kwargs[k][2], level, curr_kwargs[k][2])>>]
           r == CallMethod(cs, method_name, ca, ck)
           after == ReceiverAfter(cs, method_name, ca, ck)
       IN
       /\ curr_self' = after /\ curr_args' = ca /\ curr_kwargs' = ck
       /\ self_rl' = [self_rl EXCEPT !.mapping =
                         DictSet(@, HeldLevel(self_rl, levels, i), after)]
       /\ raw' = IF KeepsCallersDict(variant) THEN self_rl'.mapping ELSE raw
       /\ IF r.raised
          THEN /\ pc' = "raised"
               /\ exc' = IF variant = "static"
                         THEN Rewrap(r.exc, level, self_rl.cls)
                         ELSE Exc(r.exc)
               /\ UNCHANGED <<mapping, prev, computed, i>>
          ELSE /\ mapping' = IF Keep(level, r.val, prev)
                             THEN DictSet(mapping, level, r.val)
                             ELSE mapping
               /\ prev' = r.val
               /\ computed' = Append(computed, <<level, r.val>>)
               /\ i' = i + 1
               /\ UNCHANGED <<pc, exc>>
    /\ UNCHANGED <<variant, RL_REGISTRY, method_name, args, kwargs,
                   rl_args, rl_kwargs, levels, result, entry_self, earlier,
                   vvars, cvars, pvars>>

\* Mutant: static rlifies an unregistered result type as runtime does
ReturnOf_open(var, reg, m) ==
    LET cls == IF var = "proxy" THEN "object" ELSE DictGet(m, One, None).t
        r == RLInit(var, cls, m)
    IN  IF Len(m) = 1
        THEN [raised |-> FALSE, exc |-> "None", val |-> DictGet(m, One, None),
              reg |-> reg]
        ELSE [raised |-> r.raised, exc |-> r.exc,
              val |-> IF r.raised THEN None ELSE r.rl,
              reg |-> IF var = "proxy" THEN reg ELSE reg \cup {cls}]

\* Mutant: runtime raises for a result type that was never rlified, and
\* rlifies it
ReturnOf_registers_late(var, reg, m) ==
    LET cls == IF var = "proxy" THEN "object" ELSE DictGet(m, One, None).t
        r == RLInit(var, cls, m)
    IN  IF Len(m) = 1
        THEN [raised |-> FALSE, exc |-> "None", val |-> DictGet(m, One, None),
              reg |-> reg]
        ELSE IF var = "static" /\ cls \notin reg
        THEN [raised |-> TRUE, exc |-> "TypeError", val |-> None, reg |-> reg]
        ELSE IF var = "runtime" /\ cls \notin reg
        THEN [raised |-> TRUE, exc |-> "TypeError", val |-> None,
              reg |-> reg \cup {cls}]
        ELSE [raised |-> r.raised, exc |-> r.exc,
              val |-> IF r.raised THEN None ELSE r.rl, reg |-> reg]

\* Mutant: a one-level mapping is wrapped in an RL too
ReturnOf_always_rl(var, reg, m) ==
    LET cls == IF var = "proxy" THEN "object" ELSE DictGet(m, One, None).t
        r == RLInit(var, cls, m)
    IN  [raised |-> r.raised, exc |-> r.exc,
         val |-> IF r.raised THEN None ELSE r.rl, reg |-> reg]

\* Mutant: runtime looks the result type up as static does and raises for a
\* type that was never rlified
ReturnOf_closed(var, reg, m) ==
    LET cls == IF var = "proxy" THEN "object" ELSE DictGet(m, One, None).t
        r == RLInit(var, cls, m)
    IN  IF Len(m) = 1
        THEN [raised |-> FALSE, exc |-> "None", val |-> DictGet(m, One, None),
              reg |-> reg]
        ELSE IF var # "proxy" /\ cls \notin reg
        THEN [raised |-> TRUE, exc |-> "TypeError", val |-> None, reg |-> reg]
        ELSE [raised |-> r.raised, exc |-> r.exc,
              val |-> IF r.raised THEN None ELSE r.rl, reg |-> reg]

\* Mutant: the result RL is built without a look at the registry
ReturnOf_unchecked(var, reg, m) ==
    LET cls == IF var = "proxy" THEN "object" ELSE DictGet(m, One, None).t
        r == RLInit(var, cls, m)
    IN  IF Len(m) = 1
        THEN [raised |-> FALSE, exc |-> "None", val |-> DictGet(m, One, None),
              reg |-> reg]
        ELSE [raised |-> r.raised, exc |-> r.exc,
              val |-> IF r.raised THEN None ELSE r.rl, reg |-> reg]

\* what general_method returns or raises after the loop:
\* [raised, exc, val, reg] with reg the RL_REGISTRY it leaves
ReturnOf(var, reg, m) ==
    LET crisp == IF HasKey(m, One)
                 THEN [raised |-> FALSE, exc |-> "None",
                       val |-> DictGet(m, One, None), reg |-> reg]
                 ELSE [raised |-> TRUE, exc |-> "KeyError", val |-> None, reg |-> reg]
    IN
    IF var = "proxy"
    THEN \* return RL(mapping) if len(mapping) > 1 else mapping[1]
         IF Len(m) > 1
         THEN LET r == RLInit(var, "object", m)
              IN  [raised |-> r.raised, exc |-> r.exc,
                   val |-> IF r.raised THEN None ELSE r.rl, reg |-> reg]
         ELSE crisp
    ELSE IF Len(m) = 1 \/ ~HasKey(m, One) THEN crisp
    ELSE LET result_type == DictGet(m, One, None).t
             r == RLInit(var, result_type, m)
         IN  IF var = "static" /\ result_type \notin reg
             THEN [raised |-> TRUE, exc |-> "TypeError", val |-> None, reg |-> reg]
             ELSE \* runtime registers result_type before it constructs
                  [raised |-> r.raised, exc |-> r.exc,
                   val |-> IF r.raised THEN None ELSE r.rl,
                   reg |-> reg \cup {result_type}]

\* the return statement(s) after the loop
Return ==
    /\ pc = "loop" /\ i > Len(levels)
    /\ LET r == ReturnOf(variant, RL_REGISTRY, mapping) IN
       /\ pc' = IF r.raised THEN "raised" ELSE "done"
       /\ exc' = IF r.raised THEN Exc(r.exc) ELSE NoExc
       /\ result' = r.val
       /\ RL_REGISTRY' = r.reg
    /\ UNCHANGED <<variant, raw, self_rl, method_name, args, kwargs, rl_args,
                   rl_kwargs, levels, i, curr_self, curr_args, curr_kwargs,
                   prev, mapping, computed, entry_self, earlier, vvars, cvars, pvars>>

\* del mapping[key]
DictDel(m, key) == SelectSeq(m, LAMBDA e : e[1] # key)

\* the objects of the type of obj
ValsOf(obj) ==
    IF obj.t = "int" THEN IntVals
    ELSE IF obj.t = "bytes" THEN BytesVals
    ELSE IF obj.t = "list" THEN ListVals
    ELSE CCVals

\* what the caller's dict m can be after one change by the caller: a level
\* added, a level removed, the object of a level replaced or (an object of
\* ComplicatedClass) changed in place by an assignment to val
CallerChanges(m) ==
    {DictSet(m, l, v) : l \in (1..Denom) \ Range(Keys(m)), v \in ValsOf(m[1][2])}
    \cup {DictDel(m, m[k][1]) : k \in 1..Len(m)}
    \cup UNION {{DictSet(m, m[k][1], v) : v \in ValsOf(m[1][2]) \ {m[k][2]}} :
                   k \in 1..Len(m)}

\* the caller changes the dict it constructed the RL from
CallerMutates ==
    /\ pc = "constructed"
    /\ \E m \in CallerChanges(raw) :
          /\ raw' = m
          /\ self_rl' = IF KeepsCallersDict(variant)
                        THEN [self_rl EXCEPT !.mapping = m]
                        ELSE self_rl
    /\ pc' = "mutated"
    /\ UNCHANGED <<variant, RL_REGISTRY, method_name, args, kwargs, rl_args,
                   rl_kwargs, levels, i, curr_self, curr_args, curr_kwargs,
                   prev, mapping, computed, result, exc, entry_self, earlier,
                   vvars, cvars, pvars>>

Next == Construct \/ CallerMutates \/ GeneralMethodEnter \/ LoopStep \/ Return

Spec == Init /\ [][Next]_vars

----------------------------------------------------------------------------
(* Specification SpecRepeat: after a call of general_method has returned or *)
(* raised, the caller may rlify further classes and then makes the same     *)
(* call on the same RL once more                                            *)

\* general_method was called and has returned or raised
CallEnded == pc \in {"done", "raised"} /\ method_name # ""

\* what is kept of a call that has ended: self at its entry, its arguments,
\* and how it ended
EndedCall ==
    [self |-> entry_self, name |-> method_name, args |-> args, kwargs |-> kwargs,
     returned |-> pc = "done", result |-> result, exc |-> exc.type]

\* the types the call met: of its crisp operands and of the objects it kept
TypesMet ==
    CrispTypes(args \o Values(kwargs), Len(args) + Len(kwargs))
    \cup {mapping[k][2].t : k \in 1..Len(mapping)}

\* between two calls the caller, or generated code, adds the RL class of a
\* type T the call met to RL_REGISTRY (rlify(T) of runtime,
\* RL_REGISTRY[T] = RLT of static)
RegisterClass ==
    /\ CallEnded /\ earlier = <<>> /\ variant # "proxy"
    /\ \E T \in (Types \cap TypesMet) \ RL_REGISTRY :
          RL_REGISTRY' = RL_REGISTRY \cup {T}
    /\ UNCHANGED <<variant, raw, self_rl, pc, method_name, args, kwargs, rl_args,
                   rl_kwargs, levels, i, curr_self, curr_args, curr_kwargs, prev,
                   mapping, computed, result, exc, entry_self, earlier,
                   vvars, cvars, pvars>>

\* general_method is called again on the same RL with the same method_name,
\* args and kwargs
CallAgain ==
    /\ CallEnded /\ earlier = <<>>
    /\ earlier' = <<EndedCall>>
    /\ Enter(<<method_name, args, kwargs>>)
    /\ UNCHANGED <<variant, raw, self_rl, vvars, cvars, pvars>>

NextRepeat == Next \/ RegisterClass \/ CallAgain

SpecRepeat == Init /\ [][NextRepeat]_vars

----------------------------------------------------------------------------
(* Specification SpecProgram: rlify_program runs the program once for every *)
(* level of the input file, in a loop or on a multiprocessing.Pool          *)

MaxInputs == 2   \* most input lines of the file, and most levels on its first line
MaxCpus == 2     \* most CPUs of the machine

\* what subprocess.run does for one input: the program exits with status 0
\* and has written text, followed by a newline or not; it exits with another
\* status and has written stderr; or it cannot be started
Stdout(text, nl) == [kind |-> "exit0", text |-> text, nl |-> nl]
NonZero(stderr) == [kind |-> "nonzero", stderr |-> stderr]
Outcomes ==
    {Stdout("", FALSE), Stdout("a", TRUE), Stdout("a", FALSE), Stdout("b", TRUE)}
    \cup {NonZero("e1"), NonZero("e2"), [kind |-> "spawn"]}

\* result.stdout.strip()
Strip(o) == o.text

\* Mutant: the ValueError of run_program does not embed e.stderr
run_program_without_stderr(o) ==
    IF o.kind = "exit0"
    THEN [raised |-> FALSE, exc |-> "None", msg |-> NoMsg,
          val |-> IF o.text = "" THEN "None" ELSE o.text]
    ELSE IF o.kind = "nonzero"
    THEN [raised |-> TRUE, exc |-> "ValueError", msg |-> NoMsg, val |-> ""]
    ELSE [raised |-> TRUE, exc |-> "FileNotFoundError", msg |-> NoMsg, val |-> ""]

\* run_program(command, inp) when subprocess.run does o: the stripped output,
\* "None" for an empty one, ValueError(f"Program execution failed:
\* {e.stderr}") for CalledProcessError; the OSError of a program that cannot
\* be started is not caught
run_program(o) ==
    IF o.kind = "exit0"
    THEN [raised |-> FALSE, exc |-> "None", msg |-> NoMsg,
          val |-> IF Strip(o) = "" THEN "None" ELSE Strip(o)]
    ELSE IF o.kind = "nonzero"
    THEN [raised |-> TRUE, exc |-> "ValueError",
          msg |-> [diag |-> <<o.stderr>>, level |-> 0], val |-> ""]
    ELSE [raised |-> TRUE, exc |-> "FileNotFoundError", msg |-> NoMsg, val |-> ""]

\* the input files: none at the path, one without a non-blank line, or one
\* whose first line holds the tokens first and which has n more non-blank
\* lines, here the lines 1..n
TextFile(first, n) == [kind |-> "text", first |-> first, rest |-> [k \in 1..n |-> k]]
InputFiles ==
    {[kind |-> "missing"], [kind |-> "empty"]}
    \cup {TextFile(first, n) :
             first \in {<<NotANumber>>}
                       \cup {AsEntries(l) :
                                l \in SeqsUpTo(0..(Denom + 1), MaxInputs) \ {<<>>}},
             n \in 0..MaxInputs}

NprocVals == (-2)..(MaxCpus + 1)

\* rlify_program up to the execution (lines 47 to 73): the exception it
\* raises, or the levels and inputs it goes on with
ReadInput(f, np) ==
    LET bad == [raised |-> TRUE, exc |-> "ValueError", levels |-> <<>>, inputs |-> <<>>]
    IN
    IF f.kind = "missing" THEN bad
    ELSE IF f.kind = "empty" THEN bad
    ELSE IF \E k \in 1..Len(f.first) : ~f.first[k].num THEN bad
    ELSE IF validate_level_set([isList |-> TRUE, items |-> f.first]) # "ok" THEN bad
    ELSE IF Len(f.rest) # Len(f.first) THEN bad
    ELSE IF np = 0 \/ np < -1 THEN bad
    ELSE [raised |-> FALSE, exc |-> "None",
          levels |-> [k \in 1..Len(f.first) |-> f.first[k].x],
          inputs |-> f.rest]

Pending == [state |-> "pending", outcome |-> [kind |-> "none"]]
Running == [state |-> "running", outcome |-> [kind |-> "none"]]
Done(o) == [state |-> "done", outcome |-> o]

InitProgram ==
    /\ input_file \in InputFiles
    /\ nproc \in NprocVals
    /\ num_cpus \in 1..MaxCpus
    /\ p_pc = "start" /\ IdleRun
    /\ IdleValidate /\ IdleCombine /\ IdleGeneral

\* the checks of the input file and of nproc
Start ==
    /\ p_pc = "start"
    /\ LET r == ReadInput(input_file, nproc) IN
       IF r.raised
       THEN /\ p_pc' = "raised" /\ p_exc' = r.exc
            /\ UNCHANGED <<p_levels, inputs, tasks>>
       ELSE /\ p_pc' = IF nproc = 1 THEN "seq" ELSE "pool"
            /\ p_levels' = r.levels /\ inputs' = r.inputs
            /\ tasks' = [k \in 1..Len(r.inputs) |-> Pending]
            /\ UNCHANGED p_exc
    /\ UNCHANGED <<input_file, nproc, num_cpus, completed, results, p_mapping,
                   p_msg, started, vvars, cvars, gvars>>

\* run_program(command, inp) for the k-th input line: subprocess.run(command,
\* input=inp, ...)
Invocation(k, inp) == [task |-> k, stdin |-> inp]

\* an iteration of "for inp in inputs" begins: run_program(command, inp)
\* starts the program on the next input
SeqStart ==
    /\ p_pc = "seq" /\ Len(results) < Len(inputs)
    /\ tasks[Len(results) + 1].state = "pending"
    /\ tasks' = [tasks EXCEPT ![Len(results) + 1] = Running]
    /\ started' = Append(started, Invocation(Len(results) + 1, inputs[Len(results) + 1]))
    /\ UNCHANGED <<input_file, nproc, num_cpus, p_pc, p_levels, inputs, completed,
                   results, p_mapping, p_exc, p_msg, vvars, cvars, gvars>>

\* Mutant: the loop goes on after an invocation that failed, with "None" as
\* its output
SeqStep_goes_on ==
    /\ p_pc = "seq" /\ Len(results) < Len(inputs)
    /\ tasks[Len(results) + 1].state = "running"
    /\ \E o \in Outcomes :
          LET k == Len(results) + 1
              r == run_program(o)
          IN
          /\ tasks' = [tasks EXCEPT ![k] = Done(o)]
          /\ completed' = Append(completed, k)
          /\ results' = Append(results, IF r.raised THEN "None" ELSE r.val)
    /\ UNCHANGED <<input_file, nproc, num_cpus, p_pc, p_exc, p_msg, p_levels, inputs,
                   p_mapping, started, vvars, cvars, gvars>>

\* the iteration of "for inp in inputs" ends: run_program returns or raises,
\* results.append
SeqStep ==
    /\ p_pc = "seq" /\ Len(results) < Len(inputs)
    /\ tasks[Len(results) + 1].state = "running"
    /\ \E o \in Outcomes :
          LET k == Len(results) + 1
              r == run_program(o)
          IN
          /\ tasks' = [tasks EXCEPT ![k] = Done(o)]
          /\ completed' = Append(completed, k)
          /\ IF r.raised
             THEN /\ p_pc' = "raised" /\ p_exc' = r.exc /\ p_msg' = r.msg
                  /\ UNCHANGED results
             ELSE results' = Append(results, r.val) /\ UNCHANGED <<p_pc, p_exc, p_msg>>
    /\ UNCHANGED <<input_file, nproc, num_cpus, p_levels, inputs, p_mapping,
                   started, vvars, cvars, gvars>>

\* Mutant: the Pool has a process for every task
Workers_per_task(np, cpus) == MaxInputs + 1

\* processes of the Pool: nproc = num_cpus if nproc == -1 else
\* min(nproc, num_cpus)
Workers(np, cpus) == IF np = -1 THEN cpus ELSE IF np < cpus THEN np ELSE cpus

\* a worker of the pool takes the next task of the queue
PoolStart ==
    /\ p_pc = "pool"
    /\ Cardinality({k \in 1..Len(tasks) : tasks[k].state = "running"})
           < Workers(nproc, num_cpus)
    /\ \E k \in 1..Len(tasks) :
          /\ tasks[k].state = "pending"
          /\ \A j \in 1..(k - 1) : tasks[j].state # "pending"
          /\ tasks' = [tasks EXCEPT ![k] = Running]
          /\ started' = Append(started, Invocation(k, inputs[k]))
    /\ UNCHANGED <<input_file, nproc, num_cpus, p_pc, p_levels, inputs, completed,
                   results, p_mapping, p_exc, p_msg, vvars, cvars, gvars>>

\* a worker finishes its run_program and the pool receives the result
PoolFinish ==
    /\ p_pc = "pool"
    /\ \E k \in 1..Len(tasks), o \in Outcomes :
          /\ tasks[k].state = "running"
          /\ tasks' = [tasks EXCEPT ![k] = Done(o)]
          /\ completed' = Append(completed, k)
    /\ UNCHANGED <<input_file, nproc, num_cpus, p_pc, p_levels, inputs, results,
                   p_mapping, p_exc, p_msg, started, vvars, cvars, gvars>>

\* Mutant: the results are listed in the order in which the tasks finished
starmap_as_completed(tsk, order) ==
    LET failed == {j \in 1..Len(order) : run_program(tsk[order[j]].outcome).raised}
        first == CHOOSE j \in failed : \A h \in failed : j <= h
    IN  IF failed # {}
        THEN [raised |-> TRUE, exc |-> run_program(tsk[order[first]].outcome).exc,
              msg |-> run_program(tsk[order[first]].outcome).msg, values |-> <<>>]
        ELSE [raised |-> FALSE, exc |-> "None", msg |-> NoMsg,
              values |-> [j \in 1..Len(order) |-> run_program(tsk[order[j]].outcome).val]]

\* Mutant: a task that failed counts as one that printed nothing
starmap_ignores_failure(tsk, order) ==
    [raised |-> FALSE, exc |-> "None", msg |-> NoMsg,
     values |-> [k \in 1..Len(tsk) |->
                    IF run_program(tsk[k].outcome).raised THEN "None"
                    ELSE run_program(tsk[k].outcome).val]]

\* pool.starmap(run_program, ...) once every task is done, order being the
\* order in which the tasks finished: the exception of the task that failed
\* first, or the list of the results in the order of the tasks
starmap(tsk, order) ==
    LET failed == {j \in 1..Len(order) : run_program(tsk[order[j]].outcome).raised}
        first == CHOOSE j \in failed : \A h \in failed : j <= h
    IN  IF failed # {}
        THEN [raised |-> TRUE, exc |-> run_program(tsk[order[first]].outcome).exc,
              msg |-> run_program(tsk[order[first]].outcome).msg, values |-> <<>>]
        ELSE [raised |-> FALSE, exc |-> "None", msg |-> NoMsg,
              values |-> [k \in 1..Len(tsk) |-> run_program(tsk[k].outcome).val]]

\* starmap returns or raises
PoolJoin ==
    /\ p_pc = "pool"
    /\ \A k \in 1..Len(tasks) : tasks[k].state = "done"
    /\ LET r == starmap(tasks, completed) IN
       IF r.raised
       THEN p_pc' = "raised" /\ p_exc' = r.exc /\ p_msg' = r.msg /\ UNCHANGED results
       ELSE p_pc' = "zip" /\ results' = r.values /\ UNCHANGED <<p_exc, p_msg>>
    /\ UNCHANGED <<input_file, nproc, num_cpus, p_levels, inputs, tasks, completed,
                   p_mapping, started, vvars, cvars, gvars>>

\* dict(zip(ls, rs)) from the pair k on, added to the dict m
RECURSIVE ZipInto(_, _, _, _)
ZipInto(m, ls, rs, k) ==
    IF k > Len(ls) \/ k > Len(rs) THEN m
    ELSE ZipInto(DictSet(m, ls[k], rs[k]), ls, rs, k + 1)

\* mapping = dict(zip(levels, results)); return mapping
ReturnMapping ==
    /\ \/ p_pc = "seq" /\ Len(results) = Len(inputs)
       \/ p_pc = "zip"
    /\ p_mapping' = ZipInto(<<>>, p_levels, results, 1)
    /\ p_pc' = "done"
    /\ UNCHANGED <<input_file, nproc, num_cpus, p_levels, inputs, tasks, completed,
                   results, p_exc, p_msg, started, vvars, cvars, gvars>>

NextProgram ==
    Start \/ SeqStart \/ SeqStep \/ PoolStart \/ PoolFinish \/ PoolJoin \/ ReturnMapping

SpecProgram == InitProgram /\ [][NextProgram]_vars

----------------------------------------------------------------------------
(* Claims about RL construction and general_method (Spec) *)

Entered == pc \in {"loop", "done"} \/ (pc = "raised" /\ levels # <<>>)
LoopEnded == Entered /\ i > Len(levels)
ReturnedRL == pc = "done" /\ IsRL(result)
ReturnedCrisp == pc = "done" /\ ~IsRL(result)

\* the object of rl at the nearest stored level greater than or equal to level
NearestLevel(rl, level) ==
    LET above == {l \in Range(Keys(rl.mapping)) : l >= level}
    IN  CHOOSE l \in above : \A h \in above : l <= h
Nearest(rl, level) == DictGet(rl.mapping, NearestLevel(rl, level), None)

\* the named operation applied to the objects of self and of the RLs of the
\* operands at the nearest stored level greater than or equal to level
Expected(level) ==
    CallMethod(Nearest(self_rl, level), method_name,
               [k \in 1..Len(rl_args) |-> Nearest(rl_args[k], level)],
               [k \in 1..Len(rl_kwargs) |->
                   <<rl_kwargs[k][1], Nearest(rl_kwargs[k][2], level)>>]).val

\* the computed levels a state is examined for: while the loop runs the one
\* just computed (the earlier ones were examined when they were computed),
\* all of them once the call has returned or raised
Examined == IF pc = "loop" THEN {Len(computed)} \ {0} ELSE 1..Len(computed)
ExaminedKept == IF pc = "loop" THEN {Len(mapping)} \ {0} ELSE 1..Len(mapping)

\* C1: at every level of the merged level set general_method computes the
\* named operation on the objects that self and the operands hold at the
\* nearest stored level greater than or equal to it, and every level kept,
\* in the mapping being built and in the result, holds that computed object.
C1_LevelwiseApplication ==
    Entered =>
        /\ \A k \in Examined :
               computed[k] = <<levels[k], Expected(levels[k])>>
        /\ \A k \in ExaminedKept : mapping[k][2] = Expected(mapping[k][1])
        /\ pc = "done" => Len(computed) = Len(levels)
        /\ ReturnedRL => \A k \in 1..Len(result.mapping) :
               result.mapping[k][2] = Expected(result.mapping[k][1])
        /\ ReturnedCrisp => result = Expected(One)

\* C1 witness: the returned RL keeps a level that self does not store and
\* for which self's nearest stored level above is not level 1, with a
\* keyword RL among the operands
C1_Witness ==
    /\ ReturnedRL /\ Len(rl_kwargs) = 1 /\ IsRL(kwargs[1][2])
    /\ \E k \in 1..Len(result.mapping) :
          LET l == result.mapping[k][1] IN
          /\ ~HasKey(self_rl.mapping, l)
          /\ NearestLevel(self_rl, l) # One

\* a = b for the objects general_method computes
SameValue(a, b) ==
    IF Numeric(a) /\ Numeric(b) THEN a.n * b.d = b.n * a.d ELSE a = b

\* C2: an RL returned by general_method has level 1 first and no level whose
\* object equals the object of the level kept before it.
C2_ResultCanonical ==
    ReturnedRL =>
        /\ result.mapping[1][1] = One
        /\ \A k \in 2..Len(result.mapping) :
               ~SameValue(result.mapping[k][2], result.mapping[k - 1][2])

\* C2 witness: an RL was returned although the operation gave the same
\* object at two consecutive levels, which is stored once
C2_Witness ==
    /\ ReturnedRL
    /\ Len(result.mapping) < Len(computed)
    /\ \E k \in 2..Len(computed) : SameValue(computed[k][2], computed[k - 1][2])

\* every computed object equals the one computed at the level before
AllLevelsAgree ==
    \A k \in 2..Len(computed) : SameValue(computed[k][2], computed[k - 1][2])

RLOperandLevels ==
    Range(get_level_set(self_rl))
    \cup UNION {Range(get_level_set(args[k])) : k \in {j \in 1..Len(args) : IsRL(args[j])}}
    \cup UNION {Range(get_level_set(kwargs[k][2])) :
                   k \in {j \in 1..Len(kwargs) : IsRL(kwargs[j][2])}}

\* the object an operand contributes at a level: a crisp operand itself
OperandAt(x, level) == IF IsRL(x) THEN Nearest(x, level) ELSE x

\* C4: a crisp operand is the one-level RL {1: object}: the merged level set
\* holds the levels of self and of the RL operands and no other, and at
\* every merged level the operation is applied to the crisp object itself.
C4_CrispOperand ==
    Entered =>
        /\ Range(levels) = RLOperandLevels
        /\ \A k \in 1..Len(args) :
               ~IsRL(args[k]) => /\ rl_args[k].mapping = <<<<One, args[k]>>>>
                                 /\ curr_args[k] = args[k]
        /\ \A k \in 1..Len(kwargs) :
               ~IsRL(kwargs[k][2]) => /\ rl_kwargs[k][2].mapping = <<<<One, kwargs[k][2]>>>>
                                      /\ curr_kwargs[k] = kwargs[k]
        /\ \A k \in Examined :
               computed[k][2] =
                   CallMethod(Nearest(self_rl, levels[k]), method_name,
                       [j \in 1..Len(args) |-> OperandAt(args[j], levels[k])],
                       [j \in 1..Len(kwargs) |->
                           <<kwargs[j][1], OperandAt(kwargs[j][2], levels[k])>>]).val

\* C4 witness: an RL of two levels was returned from a call with a crisp
\* positional and a crisp keyword operand
C4_Witness ==
    /\ ReturnedRL /\ Len(levels) = 2 /\ Len(result.mapping) = 2
    /\ Len(args) = 1 /\ ~IsRL(args[1])
    /\ Len(kwargs) = 1 /\ ~IsRL(kwargs[1][2])

\* C5: a constructed RL stores the levels and objects of the dict it was
\* given, in the same order, equal neighbours included.
C5_ConstructStoresVerbatim ==
    pc = "constructed" =>
        /\ Len(self_rl.mapping) = Len(raw)
        /\ \A k \in 1..Len(raw) : self_rl.mapping[k] = raw[k]

\* C5 witness: an RL was constructed from a dict whose last two levels hold
\* equal objects
C5_Witness ==
    /\ pc = "constructed" /\ Len(raw) >= 2
    /\ raw[Len(raw)][2] = raw[Len(raw) - 1][2]
    /\ Len(self_rl.mapping) = Len(raw)

\* the dict m holds objects of more than one type
Mixed(m) == Cardinality({m[k][2].t : k \in 1..Len(m)}) > 1

\* the RLs of a state: self, the RLs of the operands, the returned RL
LiveRLs ==
    (IF IsRL(self_rl) THEN {self_rl} ELSE {})
    \cup Range(rl_args) \cup {rl_kwargs[k][2] : k \in 1..Len(rl_kwargs)}
    \cup (IF IsRL(result) THEN {result} ELSE {})

\* the constructor was called on the caller's dict
ConstructorRan == pc \in {"constructed", "raised"} /\ ~Entered
\* the loop ran over every level and the call went on to its return
ReachedReturn == LoopEnded /\ pc # "loop"

OperationAt(level) ==
    CallMethod(Nearest(self_rl, level), method_name,
               [k \in 1..Len(rl_args) |-> Nearest(rl_args[k], level)],
               [k \in 1..Len(rl_kwargs) |->
                   <<rl_kwargs[k][1], Nearest(rl_kwargs[k][2], level)>>])

\* general_method raised inside its loop
RaisedInLoop == pc = "raised" /\ Entered /\ i <= Len(levels)

\* C12: when the operation raises at a merged level general_method ends
\* with an exception there: nothing is returned, the levels computed are
\* exactly the ones before the failing level, and no step follows; a call
\* that returns had no level at which the operation raises.
C12_FailFast ==
    /\ RaisedInLoop =>
          /\ OperationAt(levels[i]).raised
          /\ exc.type # "None"
          /\ result = None
          /\ Len(computed) = i - 1
          /\ \A k \in 1..Len(computed) : computed[k][1] = levels[k]
          /\ ~ENABLED Next
    /\ (Entered /\ ~RaisedInLoop) =>
          \A k \in 1..(i - 1) : ~OperationAt(levels[k]).raised
    /\ pc = "done" => i = Len(levels) + 1

\* C12 witness: the operation returned at level 1, raised at the second of
\* three merged levels, and the call ended there
C12_Witness ==
    /\ RaisedInLoop /\ i = 2 /\ Len(levels) = 3 /\ Len(computed) = 1

\* C13 (as claimed): an exception of the operation inside general_method
\* of static reaches the caller with a message that names the failing level,
\* the first merged level at which the operation raises, and the RL class of
\* self, which is named after its element type.
C13_ErrorAnnotated ==
    (variant = "static" /\ RaisedInLoop) =>
        /\ OperationAt(levels[i]).raised
        /\ \A k \in 1..(i - 1) : ~OperationAt(levels[k]).raised
        /\ exc.level = levels[i]
        /\ exc.rlclass = self_rl.cls

\* C14 (as claimed): a change the caller makes to the dict, or to an object
\* in it, after it constructed an RL from it leaves the levels and objects
\* stored in the RL as they were.
C14_NoAliasing ==
    [][pc' = "mutated" => self_rl' = self_rl]_vars

\* C15 (as claimed): no step of general_method changes a level or an
\* object stored in self or in an RL operand, whatever operation it forwards
\* and whether it returns or raises.
C15_NoInPlaceMutation ==
    [][(pc \in {"constructed", "loop"} /\ pc' # "mutated") =>
           /\ self_rl' = self_rl
           /\ pc = "loop" => (rl_args' = rl_args /\ rl_kwargs' = rl_kwargs)]_vars

\* the types of the crisp operands of the call
CrispOperandTypes ==
    CrispTypes(args \o Values(kwargs), Len(args) + Len(kwargs))

\* C16: in runtime general_method does not raise for an unregistered type:
\* the call always enters its loop with the types of the crisp operands
\* registered, it raises after the loop only for a result of mixed types,
\* and an RL it returns is of the RL class of the type of its objects, which
\* is registered then.
C16_OpenWorld ==
    variant = "runtime" =>
        /\ (pc = "raised" /\ ~Entered) => ~IsRL(self_rl)
        /\ Entered =>
              /\ CrispOperandTypes \subseteq RL_REGISTRY
              /\ self_rl.cls \in RL_REGISTRY
              /\ \A k \in 1..Len(rl_args) : rl_args[k].cls \in RL_REGISTRY
              /\ \A k \in 1..Len(rl_kwargs) : rl_kwargs[k][2].cls \in RL_REGISTRY
        /\ (ReachedReturn /\ pc = "raised") =>
              Mixed(mapping) /\ exc.type = "TypeError"
        /\ ReturnedRL =>
              /\ result.cls \in RL_REGISTRY
              /\ \A k \in 1..Len(result.mapping) : result.mapping[k][2].t = result.cls

\* C16 witness: runtime returned an RL of floats from a call on an RL of
\* ints with a crisp int operand; float had not been rlified before
C16_Witness ==
    /\ variant = "runtime" /\ ReturnedRL
    /\ result.cls = "float" /\ self_rl.cls = "int"
    /\ Len(args) = 1 /\ ~IsRL(args[1])
    /\ RL_REGISTRY = {"int", "ComplicatedClass", "bytes", "float"}

\* C17 (as claimed): a call of general_method of static whose operation
\* results have a type that is not in RL_REGISTRY fails with TypeError.
C17_UnregisteredResultFails ==
    (variant = "static" /\ ReachedReturn
        /\ \E k \in 1..Len(mapping) : mapping[k][2].t \notin RL_REGISTRY) =>
        pc = "raised" /\ exc.type = "TypeError"

\* C17 (amended): a call of general_method of static that keeps more than
\* one level and whose results have a type that is not in RL_REGISTRY fails
\* with TypeError; an RL it returns is of a registered class, the class of
\* the type of its objects; a call that keeps level 1 alone returns the
\* crisp object, whatever its type.
C17_ClosedWorld ==
    variant = "static" =>
        /\ (ReachedReturn /\ Len(mapping) > 1
               /\ \E k \in 1..Len(mapping) : mapping[k][2].t \notin RL_REGISTRY) =>
              pc = "raised" /\ exc.type = "TypeError" /\ ~IsRL(result)
        /\ ReturnedRL =>
              /\ result.cls \in RL_REGISTRY
              /\ \A k \in 1..Len(result.mapping) : result.mapping[k][2].t = result.cls
        /\ (ReachedReturn /\ Len(mapping) = 1) =>
              ReturnedCrisp /\ result = mapping[1][2]

\* C17 witness: static with int alone registered computed two different
\* floats and raised TypeError at its return
C17_Witness ==
    /\ variant = "static" /\ RL_REGISTRY = {"int"}
    /\ ReachedReturn /\ Len(mapping) = 2 /\ ~Mixed(mapping)
    /\ mapping[1][2].t = "float"
    /\ pc = "raised" /\ exc.type = "TypeError"

\* the sequence of <<level, object>> pairs starts at level 1 and no object
\* equals the one before it
Canonical(m) ==
    /\ m # <<>> /\ m[1][1] = One
    /\ \A k \in 2..Len(m) : PyNe(m[k][2], m[k - 1][2])

\* the call x + 0 on an RL of ints: the operation returns at every level an
\* int equal to the one self holds there
IdentityCall ==
    /\ Entered /\ self_rl.cls = "int"
    /\ method_name = "__add__" /\ args = <<PyInt(0)>> /\ kwargs = <<>>

\* C23: the squash rule keeps every pair of a sequence of computed
\* <<level, object>> pairs that is canonical, and the call x + 0 on a
\* canonical RL of ints with at least two levels returns an RL with the
\* levels and objects of self.
C23_SquashIdempotent ==
    ReachedReturn =>
        /\ Canonical(computed) => mapping = computed
        /\ (IdentityCall /\ Canonical(self_rl.mapping) /\ Len(self_rl.mapping) >= 2) =>
               /\ computed = self_rl.mapping
               /\ ReturnedRL /\ result.mapping = self_rl.mapping

\* C23 witness: x + 0 on a canonical RL of MaxLevels levels returned an RL
\* that equals it
C23_Witness ==
    /\ ReturnedRL /\ IdentityCall
    /\ Canonical(self_rl.mapping) /\ Len(self_rl.mapping) = MaxLevels
    /\ result.mapping = self_rl.mapping

\* the levels at which the operation has been invoked, in the order of the
\* invocations: the levels it returned at and, when it raised, that level
Invoked ==
    Keys(computed) \o (IF RaisedInLoop THEN <<levels[i]>> ELSE <<>>)

\* C25: in a call of general_method the operation is invoked at the merged
\* levels in their order, which starts at level 1 and descends strictly:
\* at every moment the levels invoked are the first ones of the merged
\* level set, each once, one more with every step, and all of them when the
\* loop has ended.
C25_DescendingOnce ==
    Entered =>
        /\ levels # <<>> /\ levels[1] = One
        /\ \A k \in 1..(Len(levels) - 1) : levels[k] > levels[k + 1]
        /\ Len(Invoked) <= Len(levels)
        /\ \A k \in 1..Len(Invoked) : Invoked[k] = levels[k]
        /\ Len(computed) = i - 1
        /\ ReachedReturn => Invoked = levels

\* C25 witness: a call over three merged levels, with an RL operand, has
\* invoked the operation at the first two and not yet at the third
C25_Witness ==
    /\ pc = "loop" /\ Len(levels) = 3 /\ Len(Invoked) = 2
    /\ \E k \in 1..Len(args) : IsRL(args[k])

\* the dict m of kept levels read at level with extend-forward: the object
\* of the nearest kept level greater than or equal to level
ReadKept(m, level) == Nearest([mapping |-> m], level)

\* what general_method returned, read at level: an RL with extend-forward,
\* a crisp object as it is
ReadResult(level) ==
    IF IsRL(result) THEN ReadKept(result.mapping, level) ELSE result

\* C27: at every merged level at which the operation has been computed, the
\* mapping being built, read with extend-forward, gives an object equal to
\* the computed one, and so does what general_method returns, RL or crisp.
C27_SquashLossless ==
    Entered =>
        /\ \A k \in 1..Len(computed) :
               SameValue(ReadKept(mapping, computed[k][1]), computed[k][2])
        /\ pc = "done" =>
               \A k \in 1..Len(levels) :
                   /\ computed[k][1] = levels[k]
                   /\ SameValue(ReadResult(levels[k]), computed[k][2])

\* C27 witness: an RL was returned that lacks a merged level whose nearest
\* kept level is not level 1
C27_Witness ==
    /\ ReturnedRL
    /\ \E k \in 1..Len(levels) :
          /\ ~HasKey(result.mapping, levels[k])
          /\ NearestLevel(result, levels[k]) # One

\* C28: when the loop of general_method has ended, the mapping it built has
\* level 1 as its first key, its keys are levels of self or of an RL
\* operand, they descend strictly and validate_level_set accepts them; the
\* return does not fail on mapping[1].
C28_MappingKeysValid ==
    LoopEnded =>
        /\ mapping # <<>> /\ mapping[1][1] = One
        /\ Range(Keys(mapping)) \subseteq RLOperandLevels
        /\ \A k \in 1..(Len(mapping) - 1) : mapping[k][1] > mapping[k + 1][1]
        /\ validate_level_set([isList |-> TRUE, items |-> AsEntries(Keys(mapping))]) = "ok"
        /\ exc.type # "KeyError"

\* C28 witness: the loop ended with a mapping of three levels, one that
\* self lacks and one that the RL operand lacks
C28_Witness ==
    /\ LoopEnded /\ Len(mapping) = 3 /\ Len(args) = 1 /\ IsRL(args[1])
    /\ \E k \in 1..3 : ~HasKey(self_rl.mapping, mapping[k][1])
    /\ \E k \in 1..3 : ~HasKey(args[1].mapping, mapping[k][1])

----------------------------------------------------------------------------
(* Claims about repeated calls of general_method (SpecRepeat) *)

\* the call e that ended earlier had the self mapping, the operation name
\* and the operands of the call that has ended now
SameCall(e) ==
    /\ CallEnded
    /\ e.self.mapping = entry_self.mapping
    /\ e.name = method_name /\ e.args = args /\ e.kwargs = kwargs

\* C24: two calls of general_method with equal self mapping, the same
\* operation name and equal operands that both return return the same crisp
\* object or RLs with the same levels and objects; in proxy and runtime,
\* where no call fails for what RL_REGISTRY holds, they also end alike when
\* one of them raises.
C24_Deterministic ==
    \A k \in 1..Len(earlier) :
        LET e == earlier[k] IN
        SameCall(e) =>
            /\ (e.returned /\ pc = "done") =>
                   /\ IsRL(e.result) = IsRL(result)
                   /\ ~IsRL(result) => e.result = result
                   /\ IsRL(result) => e.result.mapping = result.mapping
            /\ variant # "static" =>
                   /\ e.returned = (pc = "done")
                   /\ e.exc = exc.type

\* C24 witness: in runtime the first call rlified float, the type of its
\* result, and the same call returned an RL of floats again
C24_Witness ==
    /\ variant = "runtime" /\ Len(earlier) = 1 /\ SameCall(earlier[1])
    /\ ReturnedRL /\ earlier[1].returned /\ IsRL(earlier[1].result)
    /\ result.cls = "float"
    /\ RL_REGISTRY = {"int", "ComplicatedClass", "bytes", "float"}

\* C30: in static no step of general_method, from its entry to its return
\* or its exception, changes RL_REGISTRY: a step that changes the registry
\* is a registration between two calls, which adds a class and leaves the
\* call that ended, its result and its exception as they are.
C30_RegistryFrame ==
    [][(variant = "static" /\ RL_REGISTRY' # RL_REGISTRY) =>
           /\ CallEnded
           /\ RL_REGISTRY \subseteq RL_REGISTRY'
           /\ UNCHANGED <<pc, method_name, args, kwargs, i, mapping, computed,
                          result, exc, self_rl, earlier>>]_vars

\* C30 witness: a call of static raised TypeError for a type without RL
\* class, the caller registered a class, and the same call returned an RL
C30_Witness ==
    /\ variant = "static" /\ Len(earlier) = 1 /\ SameCall(earlier[1])
    /\ ~earlier[1].returned /\ earlier[1].exc = "TypeError"
    /\ ReturnedRL /\ result.cls = "float"

----------------------------------------------------------------------------
(* Claims about rlify_program (SpecProgram) *)

\* the output of the invocation for the k-th input line
OutputOf(k) == run_program(tasks[k].outcome).val
\* the invocation for the k-th input line is over and failed
FailedTask(k) == tasks[k].state = "done" /\ run_program(tasks[k].outcome).raised

\* C18 (as claimed): what rlify_program returns is canonical: the output of
\* level 1 is kept, no kept output equals the one kept before it, and a
\* single surviving output is returned as a bare string, so a mapping that
\* is returned has at least two levels.
C18_ProgramCanonical ==
    p_pc = "done" =>
        /\ Len(p_mapping) >= 2
        /\ p_mapping[1][1] = One
        /\ \A k \in 2..Len(p_mapping) : p_mapping[k][2] # p_mapping[k - 1][2]

\* C19: the mapping rlify_program returns holds the levels of the file, and
\* each level holds the output of the invocation that was fed the input of
\* that level (of the last such input line when the file repeats a level),
\* in whatever order the invocations finished.
C19_ResultsFollowLevels ==
    p_pc = "done" =>
        /\ Range(Keys(p_mapping)) = Range(p_levels)
        /\ \A k \in 1..Len(p_levels) :
               (\A j \in (k + 1)..Len(p_levels) : p_levels[j] # p_levels[k]) =>
                   DictGet(p_mapping, p_levels[k], "") = OutputOf(k)

\* C19 witness: on the pool the invocation of the second level finished
\* before the one of the first, with another output
C19_Witness ==
    /\ p_pc = "done" /\ nproc # 1
    /\ Len(p_levels) = 2 /\ p_levels[1] # p_levels[2]
    /\ completed = <<2, 1>>
    /\ OutputOf(1) # OutputOf(2)

\* C20: once an invocation has failed rlify_program returns no mapping: it
\* raises at once in the loop, and on the pool it raises when starmap ends;
\* a call that returns had every invocation succeed.
C20_FailureFailsAll ==
    /\ (\E k \in 1..Len(tasks) : FailedTask(k)) =>
          /\ p_mapping = <<>>
          /\ p_pc \in {"pool", "raised"}
          /\ nproc = 1 => p_pc = "raised"
          /\ ~ENABLED ReturnMapping
    /\ p_pc = "raised" => p_mapping = <<>> /\ p_exc # "None"
    /\ p_pc = "done" =>
          \A k \in 1..Len(tasks) : tasks[k].state = "done" /\ ~FailedTask(k)

\* C20 witness: on the pool one invocation had returned its output before
\* another failed, and rlify_program raised
C20_Witness ==
    /\ p_pc = "raised" /\ nproc # 1 /\ Len(completed) = 2
    /\ ~FailedTask(completed[1]) /\ FailedTask(completed[2])
    /\ p_exc = "ValueError"

\* rlify_program raised because an invocation failed
InvocationFailed == p_pc = "raised" /\ \E k \in 1..Len(tasks) : FailedTask(k)

\* the failed invocation whose exception rlify_program raises: the one that
\* ended the loop, on the pool the first that finished with a failure
FirstFailed ==
    LET failed == {j \in 1..Len(completed) : FailedTask(completed[j])}
    IN  completed[CHOOSE j \in failed : \A h \in failed : j <= h]

InFlight == Cardinality({k \in 1..Len(tasks) : tasks[k].state = "running"})

\* the worker limit nproc configures: all CPUs for -1
WorkerLimit == IF nproc = -1 THEN num_cpus ELSE nproc

\* C22: rlify_program never has more invocations in flight than the worker
\* limit nproc configures; with nproc = 1 at most one is in flight, an
\* invocation starts only when the invocations of all levels before it have
\* returned, and they finish in level order; with nproc = 0 or nproc < -1
\* it raises ValueError and starts none.
C22_BoundedWorkers ==
    /\ (nproc = -1 \/ nproc >= 1) => InFlight <= WorkerLimit
    /\ nproc = 1 =>
          /\ InFlight <= 1
          /\ \A k \in 1..Len(tasks) :
                 tasks[k].state # "pending" =>
                     \A j \in 1..(k - 1) : tasks[j].state = "done" /\ ~FailedTask(j)
          /\ completed = [j \in 1..Len(completed) |-> j]
          /\ p_pc = "done" => Len(completed) = Len(p_levels)
    /\ ((nproc = 0 \/ nproc < -1) /\ p_pc # "start") =>
          p_pc = "raised" /\ p_exc = "ValueError" /\ tasks = <<>>

\* C22 witness: with a limit of two workers on two CPUs two invocations are
\* in flight
C22_Witness ==
    /\ nproc = 2 /\ num_cpus = 2 /\ InFlight = 2

\* the invocations started for the level l
InvocationsOf(l) == {a \in 1..Len(started) : p_levels[started[a].task] = l}

\* C26 (as claimed): in a call of rlify_program the program is started at
\* most once for each level, exactly once for each level when the call
\* returns, and each invocation is fed the input line of its level.
C26_OncePerLevel ==
    /\ \A l \in Range(p_levels) : Cardinality(InvocationsOf(l)) <= 1
    /\ p_pc = "done" =>
          \A l \in Range(p_levels) : Cardinality(InvocationsOf(l)) = 1
    /\ \A a \in 1..Len(started) : started[a].stdin = inputs[started[a].task]

\* the program is started at most once for each input line, for each of
\* them when the call returns, and is fed that line
OncePerInputLine ==
    /\ \A a, b \in 1..Len(started) : started[a].task = started[b].task => a = b
    /\ p_pc = "done" => {started[a].task : a \in 1..Len(started)} = 1..Len(inputs)
    /\ \A a \in 1..Len(started) : started[a].stdin = inputs[started[a].task]

\* C29: with nproc = 1, once the invocation for a level has failed
\* rlify_program has raised and the program is not and will not be started
\* for a later level.
C29_SequentialFailFast ==
    nproc = 1 =>
        \A k \in 1..Len(tasks) :
            FailedTask(k) =>
                /\ p_pc = "raised"
                /\ \A j \in (k + 1)..Len(tasks) : tasks[j].state = "pending"
                /\ \A a \in 1..Len(started) : started[a].task <= k
                /\ ~ENABLED SeqStart

\* C29 witness: with nproc = 1 and two levels the invocation for level 1
\* failed and the one for the second level has not been started
C29_Witness ==
    /\ nproc = 1 /\ Len(tasks) = 2 /\ p_levels[1] # p_levels[2]
    /\ FailedTask(1) /\ tasks[2].state = "pending" /\ Len(started) = 1

----------------------------------------------------------------------------
(* Claims about validate_level_set (SpecValidate) *)

Validated == vresult # "pending"
Rejected == vresult \in {"TypeError", "ValueError"}

AllNumbers(s) == \A k \in 1..Len(s) : s[k].num
InRange(s) == \A k \in 1..Len(s) : s[k].num => (0 < s[k].x /\ s[k].x <= One)
HasOne(s) == \E k \in 1..Len(s) : s[k].num /\ s[k].x = One
\* some entry is larger than the entry before it
Ascends(s) == \E k \in 1..(Len(s) - 1) : s[k].num /\ s[k + 1].num /\ s[k].x < s[k + 1].x
\* some entry equals the entry before it
Repeats(s) == \E k \in 1..(Len(s) - 1) : s[k].num /\ s[k + 1].num /\ s[k].x = s[k + 1].x

\* C9: validate_level_set raises for every list that is empty, lacks level 1,
\* holds an entry that is no number, holds an entry outside (0,1] or is not
\* in descending order, and returns for a list that has none of these
\* defects and descends strictly.
C9_ValidateRejectsDefects ==
    (Validated /\ level_set.isList) =>
        LET s == level_set.items IN
        /\ (s = <<>> \/ ~HasOne(s) \/ ~AllNumbers(s) \/ ~InRange(s) \/ Ascends(s))
               => Rejected
        /\ (s # <<>> /\ HasOne(s) /\ AllNumbers(s) /\ InRange(s)
                /\ ~Ascends(s) /\ ~Repeats(s)) => vresult = "ok"

\* C9 witness: a list of numbers in (0,1] with level 1 whose only defect is
\* its order has been rejected
C9_Witness ==
    /\ vresult = "ValueError" /\ level_set.isList
    /\ Len(level_set.items) = 3
    /\ HasOne(level_set.items) /\ AllNumbers(level_set.items)
    /\ InRange(level_set.items) /\ Ascends(level_set.items)
    /\ level_set.items[1].x = One

\* C10 (as claimed): a list that validate_level_set accepts is strictly
\* descending and holds exactly one entry equal to level 1.
C10_AcceptedIsStrict ==
    (vresult = "ok") =>
        /\ ~Ascends(level_set.items) /\ ~Repeats(level_set.items)
        /\ Cardinality({k \in 1..Len(level_set.items) : level_set.items[k].x = One}) = 1

----------------------------------------------------------------------------
(* Claims about the level merge (SpecCombine) *)

Combined == cl_levels # <<>>

StrictlyDescending(s) == \A k \in 1..(Len(s) - 1) : s[k] > s[k + 1]

\* C6: the merge of two valid level sets is strictly descending, holds every
\* level once, and its members are the union of the members of the two.
C6_MergeIsUnion ==
    (Combined /\ Len(cl_args) = 1 /\ cl_kwargs = <<>>) =>
        /\ StrictlyDescending(cl_levels)
        /\ Range(cl_levels) = Range(cl_self) \cup Range(cl_args[1])
        /\ Len(cl_levels) = Cardinality(Range(cl_self) \cup Range(cl_args[1]))

\* C6 witness: two level sets that share level 1 and each hold a level the
\* other lacks have been merged
C6_Witness ==
    /\ Combined /\ Len(cl_args) = 1 /\ cl_kwargs = <<>>
    /\ Range(cl_self) \ Range(cl_args[1]) # {}
    /\ Range(cl_args[1]) \ Range(cl_self) # {}
    /\ Len(cl_levels) >= 3

\* the level sets of self, the positional and the keyword RLs, in call order
Operands == <<cl_self>> \o cl_args \o cl_kwargs

\* the orderings of n operands
Orderings(n) == Permutations(1..n)

\* the left fold of pairwise merges over the level sets ops taken in the
\* order p
FoldInOrder(ops, p) ==
    FoldLevels(ops[p[1]], [k \in 1..(Len(ops) - 1) |-> ops[p[k + 1]]], 1)

\* C7: the set of levels of __combine_levels is the same for every ordering
\* of self and the RL operands.
C7_MergeOrderIndependent ==
    Combined =>
        LET ops == Operands
            members == Range(cl_levels)
        IN  \A p \in Orderings(Len(ops)) : Range(FoldInOrder(ops, p)) = members

\* C7 witness: self and three operands with pairwise different level sets
\* have been combined
C7_Witness ==
    /\ Combined /\ Len(cl_args) = 2 /\ Len(cl_kwargs) = 1
    /\ Cardinality(Range(Operands)) = 4

\* C8: merging a level set with itself returns it unchanged.
C8_MergeIdempotent ==
    (Combined /\ cl_args = <<cl_self>> /\ cl_kwargs = <<>>) => cl_levels = cl_self

\* C8 witness: a level set of several levels has been merged with itself
C8_Witness ==
    /\ Combined /\ cl_args = <<cl_self>> /\ cl_kwargs = <<>>
    /\ Len(cl_self) >= 3

====
